---- MODULE Spec2Model ----
(***************************************************************************)
(* SecureVault: the Express route handlers (registerRoutes) over the       *)
(* DatabaseStorage data-access layer and the PostgreSQL schema (buckets,   *)
(* files, bucket_permissions, access_logs with their foreign keys).        *)
(*                                                                         *)
(* One action per route handler.  A handler runs to its response in one    *)
(* step; every storage call it makes is part of that step.  The response   *)
(* of the latest request is kept in `last`.                                *)
(***************************************************************************)
EXTENDS Integers, Sequences, FiniteSets, TLC

\* ------------------------------------------------------------------ bounds
\* Requests that insert rows a run may hold: buckets created, permissions
\* granted, files uploaded (with their log row) and views logged.
MaxRows == 3

\* Requests that may be between two of their awaits at the same time, and the
\* buckets, permissions and files a run of the interleaved handlers may insert.
MaxInflight == 2
MaxRowsC == 2

\* Buckets and permission rows of a run of concurrent grants.
MaxBucketsG == 1
MaxPermsG == 3

\* Rows a run with failing log writes may hold.
MaxRowsF == 3

\* File rows, permission rows and search-string length the two storage queries
\* are tried on.
MaxFilesQ == 2
MaxPermsQ == 2
MaxSearchLen == 2

\* ------------------------------------------------------------ input domains
Users == {"u1", "u2"}                 \* rows of the users table (both logged in)
Names == {"alpha", "beta"}            \* bucket names a request may carry
Absent == "undefined"                 \* a field the request body does not carry
Levels == {"read", "write", "admin"}  \* the documented permission levels
AnyLevel == Levels \cup {"owner"}     \* any string passes the insert schema
Bytes == {0, 1}                       \* file contents
OriginalNames == {<<"report", "txt">>, <<"notes">>}  \* split at the dots
None == "none"                        \* JavaScript null / undefined
Slots == 1..MaxInflight               \* requests being handled concurrently
Idle == [pc |-> "idle"]               \* a slot no request occupies

VARIABLES buckets, files, perms, logs, nextId, content, last, inflight

vars == <<buckets, files, perms, logs, nextId, content, last, inflight>>

\* --------------------------------------------------------------- utilities
RECURSIVE SortById(_)
\* The rows of S in ascending id order.
SortById(S) ==
    IF S = {} THEN <<>>
    ELSE LET m == CHOOSE x \in S : \A y \in S : x.id <= y.id
         IN  <<m>> \o SortById(S \ {m})

RECURSIVE Reverse(_)
Reverse(s) == IF s = <<>> THEN <<>> ELSE Reverse(Tail(s)) \o <<Head(s)>>

RECURSIVE Flatten(_)
Flatten(ss) == IF ss = <<>> THEN <<>> ELSE Head(ss) \o Flatten(Tail(ss))

Range(s) == {s[i] : i \in 1..Len(s)}

\* How many positions of s hold a row with this id.
Occurrences(s, id) == Cardinality({i \in 1..Len(s) : s[i].id = id})

\* An optional row of a left join: <<>> (SQL NULL) or <<row>>.
Opt(rows) == IF rows = <<>> THEN << <<>> >> ELSE [i \in 1..Len(rows) |-> <<rows[i]>>]

\* Buckets, permissions and files inserted so far, and log rows other than a
\* file's upload row.
RowsUsed ==
    (nextId.bucket - 1) + (nextId.perm - 1) + (nextId.file - 1)
    + ((nextId.log - 1) - (nextId.file - 1))
Room(n) == RowsUsed + n <= MaxRows

\* ------------------------------------------------------------ storage layer
\* `x || null`: an empty string is falsy.
OrNull(x) == IF x = "" THEN None ELSE x

\* checkUserPermission with the two lookups in the other order: the explicit
\* rows decide first, ownership only when there is none.
CheckUserPermission_RowsFirst(userId, bucketId) ==
    LET rows == {p \in perms : p.bucketId = bucketId /\ p.userId = userId}
    IN  IF rows # {} THEN {OrNull(p.permission) : p \in rows}
        ELSE IF \E b \in buckets : b.id = bucketId /\ b.ownerId = userId
        THEN {"admin"} ELSE {None}

\* The values checkUserPermission(userId, bucketId) can return.  The second
\* query has no ORDER BY and the code takes its first row, so with several
\* rows for the pair any of them may decide.
CheckUserPermission(userId, bucketId) ==
    IF \E b \in buckets : b.id = bucketId /\ b.ownerId = userId
    THEN {"admin"}
    ELSE LET rows == {p \in perms : p.bucketId = bucketId /\ p.userId = userId}
         IN  IF rows = {} THEN {None} ELSE {OrNull(p.permission) : p \in rows}

\* buckets LEFT JOIN files LEFT JOIN bucket_permissions, for one bucket: one
\* row per (file, permission) pair, NULL standing in for an empty side.
JoinRows(b) ==
    LET fs == Opt(SortById({f \in files : f.bucketId = b.id}))
        ps == Opt(SortById({p \in perms : p.bucketId = b.id}))
    IN  [k \in 1..(Len(fs) * Len(ps)) |->
            [buckets |-> b,
             files |-> fs[((k - 1) \div Len(ps)) + 1],
             bucket_permissions |-> ps[((k - 1) % Len(ps)) + 1]]]

\* The WHERE clause without its third disjunct (public buckets).
BucketsWhere_NoPublic(row, userId) ==
    \/ row.buckets.ownerId = userId
    \/ row.bucket_permissions # <<>> /\ row.bucket_permissions[1].userId = userId

\* The WHERE clause of getBuckets(userId), evaluated on a joined row.
BucketsWhere(row, userId) ==
    \/ row.buckets.ownerId = userId
    \/ row.bucket_permissions # <<>> /\ row.bucket_permissions[1].userId = userId
    \/ row.buckets.isPublic = TRUE

RECURSIVE SelectRows(_, _)
SelectRows(rows, userId) ==
    IF rows = <<>> THEN <<>>
    ELSE (IF BucketsWhere(Head(rows), userId) THEN <<Head(rows)>> ELSE <<>>)
         \o SelectRows(Tail(rows), userId)

\* The joined rows of every bucket, newest bucket first (ORDER BY createdAt
\* DESC; ids are handed out in creation order).
AllJoinRows ==
    LET bs == Reverse(SortById(buckets))
    IN  Flatten([i \in 1..Len(bs) |-> JoinRows(bs[i])])

\* One iteration of the grouping loop of getBuckets: `acc` is bucketMap in
\* insertion order.
GroupRow(acc, row) ==
    IF \A i \in 1..Len(acc) : acc[i].id # row.buckets.id
    THEN Append(acc, [id |-> row.buckets.id,
                      name |-> row.buckets.name,
                      ownerId |-> row.buckets.ownerId,
                      isPublic |-> row.buckets.isPublic,
                      files |-> row.files,
                      permissions |-> row.bucket_permissions])
    ELSE LET i == CHOOSE j \in 1..Len(acc) : acc[j].id = row.buckets.id
             b == acc[i]
             fs == IF row.files # <<>> /\ Occurrences(b.files, row.files[1].id) = 0
                   THEN Append(b.files, row.files[1]) ELSE b.files
             ps == IF row.bucket_permissions # <<>>
                      /\ Occurrences(b.permissions, row.bucket_permissions[1].id) = 0
                   THEN Append(b.permissions, row.bucket_permissions[1])
                   ELSE b.permissions
         IN  [acc EXCEPT ![i] = [b EXCEPT !.files = fs, !.permissions = ps]]

RECURSIVE GroupRows(_, _)
GroupRows(acc, rows) ==
    IF rows = <<>> THEN acc ELSE GroupRows(GroupRow(acc, Head(rows)), Tail(rows))

\* getBuckets(userId): the sequence of BucketWithDetails.
GetBuckets(userId) == GroupRows(<<>>, SelectRows(AllJoinRows, userId))

\* getBucketById(id): <<>> (undefined) or <<BucketWithDetails>>.
GetBucketById(id) ==
    LET bs == {b \in buckets : b.id = id}
    IN  IF bs = {} THEN <<>>
        ELSE LET b == CHOOSE x \in bs : TRUE
                 results == JoinRows(b)
                 withFile == SelectSeq(results, LAMBDA r : r.files # <<>>)
                 withPerm == SelectSeq(results, LAMBDA r : r.bucket_permissions # <<>>)
             IN  <<[id |-> b.id, name |-> b.name, ownerId |-> b.ownerId,
                    isPublic |-> b.isPublic,
                    files |-> [i \in 1..Len(withFile) |-> withFile[i].files[1]],
                    permissions |-> [i \in 1..Len(withPerm) |->
                                        withPerm[i].bucket_permissions[1]]]>>

\* getFiles(bucketId): bucketId 0 is falsy and means no filter; newest first.
GetFiles(bucketId) ==
    Reverse(SortById({f \in files : bucketId = 0 \/ f.bucketId = bucketId}))

\* getFileById(id): <<>> (undefined) or <<file>>.
GetFileById(id) == SortById({f \in files : f.id = id})

\* getBucketPermissions(bucketId)
GetBucketPermissions(bucketId) == SortById({p \in perms : p.bucketId = bucketId})

\* getAccessLogs with the bucket filter left out.
GetAccessLogs_NoBucketFilter(bucketId, fileId) ==
    Reverse(SortById({l \in logs : fileId = 0 \/ l.fileId = fileId}))

\* getAccessLogs(bucketId, fileId): 0 is falsy and means no filter; newest
\* first (ids are handed out in the order of the timestamps).
GetAccessLogs(bucketId, fileId) ==
    Reverse(SortById({l \in logs : /\ bucketId = 0 \/ l.bucketId = bucketId
                                   /\ fileId = 0 \/ l.fileId = fileId}))

\* ------------------------------------------- constraints of the schema (DDL)
\* The bucket constraints without the UNIQUE index on the name.
BucketRowOk_NoUnique(id, name, ownerId) == ownerId \in Users

\* INSERT/UPDATE of a bucket row: name is UNIQUE, owner_id references users.
BucketRowOk(id, name, ownerId) ==
    /\ ownerId \in Users
    /\ \A b \in buckets : b.id # id => b.name # name

\* The bucket's foreign keys without the one of access_logs.
BucketReferenced_NoLogs(id) ==
    \/ \E f \in files : f.bucketId = id
    \/ \E p \in perms : p.bucketId = id

\* DELETE of a bucket: no ON DELETE action is declared, so a referencing file,
\* permission or log row makes the statement fail.
BucketReferenced(id) ==
    \/ \E f \in files : f.bucketId = id
    \/ \E p \in perms : p.bucketId = id
    \/ \E l \in logs : l.bucketId = id

\* DELETE of a file: access_logs.file_id references files.id.
FileReferenced(id) == \E l \in logs : l.fileId = id

\* INSERT into access_logs: file_id and bucket_id are nullable references
\* (0 stands for NULL); `fs` and `bs` are the tables at the time of the insert.
LogRowOk(fileId, bucketId, fs, bs) ==
    /\ fileId = 0 \/ \E f \in fs : f.id = fileId
    /\ bucketId = 0 \/ \E b \in bs : b.id = bucketId

\* The permission table with a UNIQUE (bucket_id, user_id) constraint.
PermissionRowOk_Unique(bucketId, userId) ==
    /\ userId \in Users
    /\ \E b \in buckets : b.id = bucketId
    /\ ~\E p \in perms : p.bucketId = bucketId /\ p.userId = userId

\* INSERT into bucket_permissions: bucket_id references buckets, user_id
\* users; the table has no other constraint than its primary key.
PermissionRowOk(bucketId, userId) ==
    /\ userId \in Users
    /\ \E b \in buckets : b.id = bucketId

\* ------------------------------------------------------------ upload helpers
\* crypto.createHash('sha256').update(buffer).digest('hex'): a function of the
\* bytes alone, without collisions on the contents considered here.
Sha256(bytes) == (bytes * 5 + 3) % 7

\* originalname.split('.').pop()
FileExtension(originalName) == originalName[Len(originalName)]

\* A storage name built from the extension alone, without the drawn value.
UniqueName_NoUuid(uuid, originalName) == <<0, FileExtension(originalName)>>

\* `${crypto.randomUUID()}.${fileExtension}`; `uuid` is the value drawn.
UniqueName(uuid, originalName) == <<uuid, FileExtension(originalName)>>

\* ------------------------------------------------------------------- state
Init ==
    /\ buckets = {}
    /\ files = {}
    /\ perms = {}
    /\ logs = {}
    /\ nextId = [bucket |-> 1, file |-> 1, perm |-> 1, log |-> 1]
    /\ content = <<>>
    /\ last = [op |-> "none", user |-> "none", bucketId |-> 0, fileId |-> 0,
               permId |-> 0, perm |-> "unchecked", status |-> 0, body |-> <<>>,
               hasFile |-> FALSE, metaOk |-> FALSE, ownerId |-> Absent,
               logFails |-> FALSE]
    /\ inflight = [s \in Slots |-> Idle]

\* The response of a handler: what was asked (op, caller, ids of the URL or
\* body), the permission the handler read (if it read one), status and body.
Response(op, user, bucketId, fileId, permId, perm, status, body) ==
    [op |-> op, user |-> user, bucketId |-> bucketId, fileId |-> fileId,
     permId |-> permId, perm |-> perm, status |-> status, body |-> body,
     hasFile |-> FALSE, metaOk |-> FALSE, ownerId |-> Absent, logFails |-> FALSE]

\* logAccess writing its row over the table instead of adding it.
LogAccess_Overwrite(userId, fileId, bucketId, action) ==
    {[id |-> nextId.log, userId |-> userId, fileId |-> fileId,
      bucketId |-> bucketId, action |-> action]}

\* logAccess(row): the new access_logs table.
LogAccess(userId, fileId, bucketId, action) ==
    logs \cup {[id |-> nextId.log, userId |-> userId, fileId |-> fileId,
                bucketId |-> bucketId, action |-> action]}

\* ---------------------------------------------------------- bucket routes
\* GET /api/buckets
GetBucketsRoute(userId) ==
    /\ last' = Response("GET /api/buckets", userId, 0, 0, 0, "unchecked", 200,
                        GetBuckets(userId))
    /\ UNCHANGED <<buckets, files, perms, logs, nextId, content, inflight>>

\* GET /api/buckets/:id
GetBucketRoute(userId, bucketId) ==
    /\ Room(1)
    /\ \E permission \in CheckUserPermission(userId, bucketId) :
        LET op == "GET /api/buckets/:id"
            bucket == GetBucketById(bucketId)
        IN  IF permission = None
            THEN /\ last' = Response(op, userId, bucketId, 0, 0, permission, 403, <<>>)
                 /\ UNCHANGED <<logs, nextId>>
            ELSE IF bucket = <<>>
            THEN /\ last' = Response(op, userId, bucketId, 0, 0, permission, 404, <<>>)
                 /\ UNCHANGED <<logs, nextId>>
            ELSE IF ~LogRowOk(0, bucketId, files, buckets)
            THEN /\ last' = Response(op, userId, bucketId, 0, 0, permission, 500, <<>>)
                 /\ UNCHANGED <<logs, nextId>>
            ELSE /\ logs' = LogAccess(userId, 0, bucketId, "view")
                 /\ nextId' = [nextId EXCEPT !.log = @ + 1]
                 /\ last' = Response(op, userId, bucketId, 0, 0, permission, 200, bucket)
    /\ UNCHANGED <<buckets, files, perms, content, inflight>>

\* The object spread with the caller's id first: a body that carries an
\* ownerId overrides it.
BucketData_BodyWins(body, userId) ==
    IF body.ownerId = Absent THEN [body EXCEPT !.ownerId = userId] ELSE body

\* `{ ...req.body, ownerId: userId }`: the caller's id replaces whatever
\* ownerId the body carries.
BucketData(body, userId) == [body EXCEPT !.ownerId = userId]

\* POST /api/buckets; `ownerId` is the ownerId field of the request body.
PostBucketRoute(userId, name, isPublic, ownerId) ==
    /\ Room(1)
    /\ LET op == "POST /api/buckets"
           bucketData == BucketData([name |-> name, isPublic |-> isPublic,
                                     ownerId |-> ownerId], userId)
           bucket == [id |-> nextId.bucket, name |-> bucketData.name,
                      ownerId |-> bucketData.ownerId, isPublic |-> bucketData.isPublic]
           R(bucketId, status, body) ==
               [Response(op, userId, bucketId, 0, 0, "unchecked", status, body)
                   EXCEPT !.ownerId = ownerId]
       IN  IF name = Absent
           THEN /\ last' = R(0, 400, <<>>)
                /\ UNCHANGED <<buckets, nextId>>
           ELSE IF ~BucketRowOk(bucket.id, bucket.name, bucket.ownerId)
           THEN /\ last' = R(0, 500, <<>>)
                /\ UNCHANGED <<buckets, nextId>>
           ELSE /\ buckets' = buckets \cup {bucket}
                /\ nextId' = [nextId EXCEPT !.bucket = @ + 1]
                /\ last' = R(bucket.id, 201, <<bucket>>)
    /\ UNCHANGED <<files, perms, logs, content, inflight>>

\* The admin test weakened to let holders of 'write' through as well.
AdminDenied_WriteAllowed(permission) == permission \notin {"admin", "write"}

\* The test of the admin-only routes: `permission !== 'admin'`.
AdminDenied(permission) == permission # "admin"

\* The bodies PUT /api/buckets/:id is tried with: one field each.
Updates ==
    [field : {"name"}, value : Names] \cup [field : {"isPublic"}, value : BOOLEAN]
    \cup [field : {"ownerId"}, value : Users]

\* updateBucket(id, updates): the row after SET.
UpdateBucket(b, updates) ==
    IF updates.field = "name" THEN [b EXCEPT !.name = updates.value]
    ELSE IF updates.field = "isPublic" THEN [b EXCEPT !.isPublic = updates.value]
    ELSE [b EXCEPT !.ownerId = updates.value]

\* PUT /api/buckets/:id
PutBucketRoute(userId, bucketId, updates) ==
    /\ \E permission \in CheckUserPermission(userId, bucketId) :
        LET op == "PUT /api/buckets/:id"
            old == {b \in buckets : b.id = bucketId}
            new == {UpdateBucket(b, updates) : b \in old}
        IN  IF AdminDenied(permission)
            THEN /\ last' = Response(op, userId, bucketId, 0, 0, permission, 403, <<>>)
                 /\ UNCHANGED buckets
            ELSE IF \E b \in new : ~BucketRowOk(b.id, b.name, b.ownerId)
            THEN /\ last' = Response(op, userId, bucketId, 0, 0, permission, 500, <<>>)
                 /\ UNCHANGED buckets
            ELSE /\ buckets' = (buckets \ old) \cup new
                 /\ last' = Response(op, userId, bucketId, 0, 0, permission, 200,
                                     SortById(new))
    /\ UNCHANGED <<files, perms, logs, nextId, content, inflight>>

\* DELETE /api/buckets/:id
DeleteBucketRoute(userId, bucketId) ==
    /\ \E permission \in CheckUserPermission(userId, bucketId) :
        LET op == "DELETE /api/buckets/:id"
        IN  IF AdminDenied(permission)
            THEN /\ last' = Response(op, userId, bucketId, 0, 0, permission, 403, <<>>)
                 /\ UNCHANGED buckets
            ELSE IF BucketReferenced(bucketId)
            THEN /\ last' = Response(op, userId, bucketId, 0, 0, permission, 500, <<>>)
                 /\ UNCHANGED buckets
            ELSE /\ buckets' = {b \in buckets : b.id # bucketId}
                 /\ last' = Response(op, userId, bucketId, 0, 0, permission, 200, <<>>)
    /\ UNCHANGED <<files, perms, logs, nextId, content, inflight>>

\* ------------------------------------------------------------ file routes
\* GET /api/files; bucketId 0 stands for a query without bucketId.
GetFilesRoute(userId, bucketId) ==
    /\ \E permission \in (IF bucketId # 0 THEN CheckUserPermission(userId, bucketId)
                          ELSE {"unchecked"}) :
        LET op == "GET /api/files"
        IN  IF bucketId # 0 /\ permission = None
            THEN last' = Response(op, userId, bucketId, 0, 0, permission, 403, <<>>)
            ELSE last' = Response(op, userId, bucketId, 0, 0, permission, 200,
                                  GetFiles(bucketId))
    /\ UNCHANGED <<buckets, files, perms, logs, nextId, content, inflight>>

\* The handler writing the 'view' row as soon as the file is found, before
\* it looks at the caller's permission.
GetFileRoute_LogFirst(userId, fileId) ==
    /\ Room(1)
    /\ LET op == "GET /api/files/:id"
           file == GetFileById(fileId)
       IN  IF file = <<>>
           THEN /\ last' = Response(op, userId, 0, fileId, 0, "unchecked", 404, <<>>)
                /\ UNCHANGED <<logs, nextId>>
           ELSE \E permission \in CheckUserPermission(userId, file[1].bucketId) :
                /\ logs' = LogAccess(userId, fileId, file[1].bucketId, "view")
                /\ nextId' = [nextId EXCEPT !.log = @ + 1]
                /\ last' = Response(op, userId, file[1].bucketId, fileId, 0, permission,
                                    IF permission = None THEN 403 ELSE 200,
                                    IF permission = None THEN <<>> ELSE file)
    /\ UNCHANGED <<buckets, files, perms, content, inflight>>

\* GET /api/files/:id
GetFileRoute(userId, fileId) ==
    /\ Room(1)
    /\ LET op == "GET /api/files/:id"
           file == GetFileById(fileId)
       IN  IF file = <<>>
           THEN /\ last' = Response(op, userId, 0, fileId, 0, "unchecked", 404, <<>>)
                /\ UNCHANGED <<logs, nextId>>
           ELSE \E permission \in CheckUserPermission(userId, file[1].bucketId) :
                IF permission = None
                THEN /\ last' = Response(op, userId, file[1].bucketId, fileId, 0,
                                         permission, 403, <<>>)
                     /\ UNCHANGED <<logs, nextId>>
                ELSE IF ~LogRowOk(fileId, file[1].bucketId, files, buckets)
                THEN /\ last' = Response(op, userId, file[1].bucketId, fileId, 0,
                                         permission, 500, <<>>)
                     /\ UNCHANGED <<logs, nextId>>
                ELSE /\ logs' = LogAccess(userId, fileId, file[1].bucketId, "view")
                     /\ nextId' = [nextId EXCEPT !.log = @ + 1]
                     /\ last' = Response(op, userId, file[1].bucketId, fileId, 0,
                                         permission, 200, file)
    /\ UNCHANGED <<buckets, files, perms, content, inflight>>

\* The write test weakened to the test of the read routes (`!permission`).
WriteDenied_AnyPermission(permission) == permission = None

\* The test both file-writing routes apply to the permission they read:
\* `!permission || (permission !== 'write' && permission !== 'admin')`.
WriteDenied(permission) ==
    permission = None \/ (permission # "write" /\ permission # "admin")

\* crypto.randomUUID(): a value no earlier call returned; the draws that end
\* up in a stored name are numbered with the files.
RandomUUID == nextId.file

\* POST /api/files/upload.  hasFile: the multipart body has a file part;
\* metaOk: insertFileSchema.parse accepts the row built from the request.
\* `content` remembers the bytes each file row was uploaded with (the handler
\* keeps them in memory only).
UploadRoute(userId, bucketId, hasFile, metaOk, bytes, originalName) ==
    /\ Room(1)
    /\ LET op == "POST /api/files/upload"
           R(permission, parsed, status, body) ==
               [Response(op, userId, bucketId, 0, 0, permission, status, body)
                   EXCEPT !.hasFile = hasFile, !.metaOk = parsed]
       IN  IF ~hasFile
           THEN /\ last' = R("unchecked", FALSE, 400, <<>>)
                /\ UNCHANGED <<files, logs, nextId, content>>
           ELSE \E permission \in CheckUserPermission(userId, bucketId) :
                LET file == [id |-> nextId.file,
                             name |-> UniqueName(RandomUUID, originalName),
                             originalName |-> originalName,
                             bucketId |-> bucketId,
                             uploaderId |-> userId,
                             checksum |-> Sha256(bytes)]
                IN  IF WriteDenied(permission)
                    THEN /\ last' = R(permission, FALSE, 403, <<>>)
                         /\ UNCHANGED <<files, logs, nextId, content>>
                    ELSE IF ~metaOk
                    THEN /\ last' = R(permission, FALSE, 400, <<>>)
                         /\ UNCHANGED <<files, logs, nextId, content>>
                    ELSE IF ~(\E b \in buckets : b.id = bucketId)
                    THEN /\ last' = R(permission, TRUE, 500, <<>>)
                         /\ UNCHANGED <<files, logs, nextId, content>>
                    ELSE /\ files' = files \cup {file}
                         /\ content' = Append(content, bytes)
                         /\ IF LogRowOk(file.id, bucketId, files', buckets)
                            THEN /\ logs' = LogAccess(userId, file.id, bucketId, "upload")
                                 /\ nextId' = [nextId EXCEPT !.file = @ + 1, !.log = @ + 1]
                                 /\ last' = R(permission, TRUE, 201, <<file>>)
                            ELSE /\ logs' = logs
                                 /\ nextId' = [nextId EXCEPT !.file = @ + 1]
                                 /\ last' = R(permission, TRUE, 500, <<>>)
    /\ UNCHANGED <<buckets, perms, inflight>>

\* The handler answering a caller without permission as if the file were
\* absent.
DeleteFileRoute_HidesFile(userId, fileId) ==
    /\ LET op == "DELETE /api/files/:id"
           file == GetFileById(fileId)
       IN  IF file = <<>>
           THEN /\ last' = Response(op, userId, 0, fileId, 0, "unchecked", 404, <<>>)
                /\ UNCHANGED <<files, logs, nextId>>
           ELSE \E permission \in CheckUserPermission(userId, file[1].bucketId) :
                LET R(status) == Response(op, userId, file[1].bucketId, fileId, 0,
                                          permission, status, <<>>)
                IN  IF permission = None
                    THEN /\ last' = Response(op, userId, 0, fileId, 0, "unchecked",
                                             404, <<>>)
                         /\ UNCHANGED <<files, logs, nextId>>
                    ELSE IF WriteDenied(permission)
                    THEN /\ last' = R(403)
                         /\ UNCHANGED <<files, logs, nextId>>
                    ELSE IF FileReferenced(fileId)
                    THEN /\ last' = R(500)
                         /\ UNCHANGED <<files, logs, nextId>>
                    ELSE /\ Room(1)
                         /\ files' = {f \in files : f.id # fileId}
                         /\ IF LogRowOk(fileId, file[1].bucketId, files', buckets)
                            THEN /\ logs' = LogAccess(userId, fileId, file[1].bucketId,
                                                      "delete")
                                 /\ nextId' = [nextId EXCEPT !.log = @ + 1]
                                 /\ last' = R(200)
                            ELSE /\ last' = R(500)
                                 /\ UNCHANGED <<logs, nextId>>
    /\ UNCHANGED <<buckets, perms, content, inflight>>

\* DELETE /api/files/:id
DeleteFileRoute(userId, fileId) ==
    /\ LET op == "DELETE /api/files/:id"
           file == GetFileById(fileId)
       IN  IF file = <<>>
           THEN /\ last' = Response(op, userId, 0, fileId, 0, "unchecked", 404, <<>>)
                /\ UNCHANGED <<files, logs, nextId>>
           ELSE \E permission \in CheckUserPermission(userId, file[1].bucketId) :
                LET R(status) == Response(op, userId, file[1].bucketId, fileId, 0,
                                          permission, status, <<>>)
                IN  IF WriteDenied(permission)
                    THEN /\ last' = R(403)
                         /\ UNCHANGED <<files, logs, nextId>>
                    ELSE IF FileReferenced(fileId)
                    THEN /\ last' = R(500)
                         /\ UNCHANGED <<files, logs, nextId>>
                    ELSE /\ Room(1)
                         /\ files' = {f \in files : f.id # fileId}
                         /\ IF LogRowOk(fileId, file[1].bucketId, files', buckets)
                            THEN /\ logs' = LogAccess(userId, fileId, file[1].bucketId,
                                                      "delete")
                                 /\ nextId' = [nextId EXCEPT !.log = @ + 1]
                                 /\ last' = R(200)
                            ELSE /\ last' = R(500)
                                 /\ UNCHANGED <<logs, nextId>>
    /\ UNCHANGED <<buckets, perms, content, inflight>>

\* ------------------------------------------------------ permission routes
\* GET /api/buckets/:id/permissions
GetPermissionsRoute(userId, bucketId) ==
    /\ \E permission \in CheckUserPermission(userId, bucketId) :
        LET op == "GET /api/buckets/:id/permissions"
        IN  IF AdminDenied(permission)
            THEN last' = Response(op, userId, bucketId, 0, 0, permission, 403, <<>>)
            ELSE last' = Response(op, userId, bucketId, 0, 0, permission, 200,
                                  GetBucketPermissions(bucketId))
    /\ UNCHANGED <<buckets, files, perms, logs, nextId, content, inflight>>

\* POST /api/buckets/:id/permissions; the body carries the grantee and the level.
PostPermissionRoute(userId, bucketId, grantee, level) ==
    /\ Room(1)
    /\ \E permission \in CheckUserPermission(userId, bucketId) :
        LET op == "POST /api/buckets/:id/permissions"
            row == [id |-> nextId.perm, bucketId |-> bucketId, userId |-> grantee,
                    permission |-> level]
        IN  IF AdminDenied(permission)
            THEN /\ last' = Response(op, userId, bucketId, 0, 0, permission, 403, <<>>)
                 /\ UNCHANGED <<perms, nextId>>
            ELSE IF level = Absent
            THEN /\ last' = Response(op, userId, bucketId, 0, 0, permission, 400, <<>>)
                 /\ UNCHANGED <<perms, nextId>>
            ELSE IF ~PermissionRowOk(bucketId, grantee)
            THEN /\ last' = Response(op, userId, bucketId, 0, 0, permission, 500, <<>>)
                 /\ UNCHANGED <<perms, nextId>>
            ELSE /\ perms' = perms \cup {row}
                 /\ nextId' = [nextId EXCEPT !.perm = @ + 1]
                 /\ last' = Response(op, userId, bucketId, 0, row.id, permission, 201,
                                     <<row>>)
    /\ UNCHANGED <<buckets, files, logs, content, inflight>>

\* DELETE /api/permissions/:id.  The handler looks the row up among
\* getBucketPermissions(0), the permission rows of bucket 0.
DeletePermissionRoute(userId, permissionId) ==
    /\ LET op == "DELETE /api/permissions/:id"
           permissions == GetBucketPermissions(0)
           target == SelectSeq(permissions, LAMBDA p : p.id = permissionId)
       IN  IF target = <<>>
           THEN /\ last' = Response(op, userId, 0, 0, permissionId, "unchecked", 404, <<>>)
                /\ UNCHANGED perms
           ELSE \E permission \in CheckUserPermission(userId, target[1].bucketId) :
                IF AdminDenied(permission)
                THEN /\ last' = Response(op, userId, target[1].bucketId, 0, permissionId,
                                         permission, 403, <<>>)
                     /\ UNCHANGED perms
                ELSE /\ perms' = {p \in perms : p.id # permissionId}
                     /\ last' = Response(op, userId, target[1].bucketId, 0, permissionId,
                                         permission, 200, <<>>)
    /\ UNCHANGED <<buckets, files, logs, nextId, content, inflight>>

\* ------------------------------------------------------------- log route
\* GET /api/logs; bucketId 0 and fileId 0 stand for a query without them.
GetLogsRoute(userId, bucketId, fileId) ==
    /\ \E permission \in (IF bucketId # 0 THEN CheckUserPermission(userId, bucketId)
                          ELSE {"unchecked"}) :
        LET op == "GET /api/logs"
        IN  IF bucketId # 0 /\ AdminDenied(permission)
            THEN last' = Response(op, userId, bucketId, fileId, 0, permission, 403, <<>>)
            ELSE last' = Response(op, userId, bucketId, fileId, 0, permission, 200,
                                  GetAccessLogs(bucketId, fileId))
    /\ UNCHANGED <<buckets, files, perms, logs, nextId, content, inflight>>

\* ------------------------------------------------------------ specification
\* Ids a request may name: those handed out so far and one never handed out.
BucketIds == 1..nextId.bucket
FileIds == 1..nextId.file
PermIds == 1..nextId.perm

\* The multipart bodies POST /api/files/upload is tried with: no file part, a
\* file with metadata the schema rejects, and well-formed uploads.
Uploads ==
    LET n0 == CHOOSE n \in OriginalNames : TRUE
        b0 == CHOOSE b \in Bytes : TRUE
    IN  {[hasFile |-> FALSE, metaOk |-> TRUE, bytes |-> b0, originalName |-> n0],
         [hasFile |-> TRUE, metaOk |-> FALSE, bytes |-> b0, originalName |-> n0]}
        \cup [hasFile : {TRUE}, metaOk : {TRUE}, bytes : Bytes,
              originalName : OriginalNames]

Next ==
    \/ \E u \in Users : GetBucketsRoute(u)
    \/ \E u \in Users, b \in BucketIds : GetBucketRoute(u, b)
    \/ \E u \in Users, n \in Names \cup {Absent}, pub \in BOOLEAN,
          o \in Users \cup {Absent} : PostBucketRoute(u, n, pub, o)
    \/ \E u \in Users, b \in BucketIds, upd \in Updates : PutBucketRoute(u, b, upd)
    \/ \E u \in Users, b \in BucketIds : DeleteBucketRoute(u, b)
    \/ \E u \in Users, b \in {0} \cup BucketIds : GetFilesRoute(u, b)
    \/ \E u \in Users, f \in FileIds : GetFileRoute(u, f)
    \/ \E u \in Users, b \in BucketIds, up \in Uploads :
          UploadRoute(u, b, up.hasFile, up.metaOk, up.bytes, up.originalName)
    \/ \E u \in Users, f \in FileIds : DeleteFileRoute(u, f)
    \/ \E u \in Users, b \in BucketIds : GetPermissionsRoute(u, b)
    \/ \E u \in Users, b \in BucketIds, g \in Users, l \in AnyLevel \cup {Absent} :
          PostPermissionRoute(u, b, g, l)
    \/ \E u \in Users, p \in PermIds : DeletePermissionRoute(u, p)
    \/ \E u \in Users, b \in {0} \cup BucketIds, f \in {0} \cup FileIds :
          GetLogsRoute(u, b, f)

Spec == Init /\ [][Next]_vars

\* ------------------------------------------------- reading the last response
OpGetBuckets == "GET /api/buckets"
OpGetBucket == "GET /api/buckets/:id"
OpPostBucket == "POST /api/buckets"
OpPutBucket == "PUT /api/buckets/:id"
OpDeleteBucket == "DELETE /api/buckets/:id"
OpGetFiles == "GET /api/files"
OpGetFile == "GET /api/files/:id"
OpUpload == "POST /api/files/upload"
OpDeleteFile == "DELETE /api/files/:id"
OpGetPermissions == "GET /api/buckets/:id/permissions"
OpPostPermission == "POST /api/buckets/:id/permissions"
OpDeletePermission == "DELETE /api/permissions/:id"
OpGetLogs == "GET /api/logs"

\* ------------------------------------------- handlers between their awaits
\* The writing routes with every awaited storage call as a step of its own,
\* so that the calls of requests handled at the same time interleave.  A slot
\* holds what a request has read so far and the call it makes next (pc).
\* POST /api/buckets awaits a single statement and stays one step.

\* First query of checkUserPermission: is the user the owner of the bucket?
OwnerQuery(userId, bucketId) ==
    \E b \in buckets : b.id = bucketId /\ b.ownerId = userId

\* Second query of checkUserPermission: the values `permission?.permission ||
\* null` can take, the first row of a SELECT without ORDER BY.
RowsQuery(userId, bucketId) ==
    LET rows == {p \in perms : p.bucketId = bucketId /\ p.userId = userId}
    IN  IF rows = {} THEN {None} ELSE {OrNull(p.permission) : p \in rows}

\* The test a route applies to the permission it read.
Denied(op, permission) ==
    IF op = OpUpload THEN WriteDenied(permission) ELSE AdminDenied(permission)

\* Bucket ids handed out so far: the buckets that exist or were deleted.
IssuedBucketIds == 1..(nextId.bucket - 1)

\* The requests a slot is started with: route, caller, bucket and body.  PUT
\* carries a new name, a grant a level that passes some test.
Requests ==
    [op : {OpPutBucket}, user : Users, bucketId : IssuedBucketIds,
     arg : [field : {"name"}, value : Names]]
    \cup [op : {OpDeleteBucket, OpUpload}, user : Users, bucketId : IssuedBucketIds,
          arg : {Absent}]
    \cup [op : {OpPostPermission}, user : Users, bucketId : IssuedBucketIds,
          arg : [userId : Users, permission : {"write", "admin"}]]

RoomC(n) ==
    (nextId.bucket - 1) + (nextId.perm - 1) + (nextId.file - 1) + n <= MaxRowsC

Request(s) == inflight[s]
Goto(s, pc, permission, fileId) ==
    inflight' = [inflight EXCEPT ![s] = [Request(s) EXCEPT !.pc = pc,
                                            !.perm = permission, !.fileId = fileId]]
Done(s) == inflight' = [inflight EXCEPT ![s] = Idle]

\* The response of the request in slot s.
Answer(s, permission, status, body) ==
    [Response(Request(s).op, Request(s).user, Request(s).bucketId, 0, 0,
              permission, status, body)
        EXCEPT !.hasFile = (Request(s).op = OpUpload),
               !.metaOk = (Request(s).op = OpUpload /\ status # 403)]

\* A request arrives and its handler awaits the owner query.  The owner is
\* 'admin' and passes every test; for anyone else the rows query is next.
OwnerQueryStep(s, req) ==
    /\ inflight[s] = Idle
    /\ inflight' = [inflight EXCEPT ![s] =
            [pc |-> IF OwnerQuery(req.user, req.bucketId) THEN "checked" ELSE "rows",
             op |-> req.op, user |-> req.user, bucketId |-> req.bucketId,
             arg |-> req.arg,
             perm |-> IF OwnerQuery(req.user, req.bucketId) THEN "admin" ELSE "unchecked",
             fileId |-> 0]]
    /\ UNCHANGED <<buckets, files, perms, logs, nextId, content, last>>

\* The rows query returns; the handler applies its test and answers 403 or
\* goes on to its write.
RowsQueryStep(s) ==
    /\ Request(s).pc = "rows"
    /\ \E permission \in RowsQuery(Request(s).user, Request(s).bucketId) :
        IF Denied(Request(s).op, permission)
        THEN /\ last' = Answer(s, permission, 403, <<>>)
             /\ Done(s)
        ELSE /\ Goto(s, "checked", permission, 0)
             /\ UNCHANGED last
    /\ UNCHANGED <<buckets, files, perms, logs, nextId, content>>

\* PUT /api/buckets/:id after its check: updateBucket and the response.
UpdateBucketStep(s) ==
    /\ Request(s).pc = "checked" /\ Request(s).op = OpPutBucket
    /\ LET old == {b \in buckets : b.id = Request(s).bucketId}
           new == {UpdateBucket(b, Request(s).arg) : b \in old}
       IN  IF \E b \in new : ~BucketRowOk(b.id, b.name, b.ownerId)
           THEN /\ last' = Answer(s, Request(s).perm, 500, <<>>)
                /\ UNCHANGED buckets
           ELSE /\ buckets' = (buckets \ old) \cup new
                /\ last' = Answer(s, Request(s).perm, 200, SortById(new))
    /\ Done(s)
    /\ UNCHANGED <<files, perms, logs, nextId, content>>

\* DELETE /api/buckets/:id after its check: deleteBucket and the response.
DeleteBucketStep(s) ==
    /\ Request(s).pc = "checked" /\ Request(s).op = OpDeleteBucket
    /\ IF BucketReferenced(Request(s).bucketId)
       THEN /\ last' = Answer(s, Request(s).perm, 500, <<>>)
            /\ UNCHANGED buckets
       ELSE /\ buckets' = {b \in buckets : b.id # Request(s).bucketId}
            /\ last' = Answer(s, Request(s).perm, 200, <<>>)
    /\ Done(s)
    /\ UNCHANGED <<files, perms, logs, nextId, content>>

\* The file constraints without the reference to buckets.
FileRowOk_NoBucket(bucketId, uploaderId) == uploaderId \in Users

\* INSERT of a file row: bucket_id references buckets, uploader_id users.
FileRowOk(bucketId, uploaderId) ==
    /\ uploaderId \in Users
    /\ \E b \in buckets : b.id = bucketId

\* POST /api/files/upload after its check: the row is built and createFile
\* awaited; the log write is the next step.
CreateFileStep(s) ==
    /\ Request(s).pc = "checked" /\ Request(s).op = OpUpload
    /\ RoomC(1)
    /\ LET bytes == CHOOSE b \in Bytes : TRUE
           originalName == CHOOSE n \in OriginalNames : TRUE
           file == [id |-> nextId.file,
                    name |-> UniqueName(RandomUUID, originalName),
                    originalName |-> originalName,
                    bucketId |-> Request(s).bucketId,
                    uploaderId |-> Request(s).user,
                    checksum |-> Sha256(bytes)]
       IN  IF ~FileRowOk(file.bucketId, file.uploaderId)
           THEN /\ last' = Answer(s, Request(s).perm, 500, <<>>)
                /\ Done(s)
                /\ UNCHANGED <<files, nextId, content>>
           ELSE /\ files' = files \cup {file}
                /\ content' = Append(content, bytes)
                /\ nextId' = [nextId EXCEPT !.file = @ + 1]
                /\ Goto(s, "created", Request(s).perm, file.id)
                /\ UNCHANGED last
    /\ UNCHANGED <<buckets, perms, logs>>

\* POST /api/files/upload after createFile: logAccess and the response.
LogUploadStep(s) ==
    /\ Request(s).pc = "created"
    /\ LET file == GetFileById(Request(s).fileId)
       IN  IF LogRowOk(Request(s).fileId, Request(s).bucketId, files, buckets)
           THEN /\ logs' = LogAccess(Request(s).user, Request(s).fileId,
                                     Request(s).bucketId, "upload")
                /\ nextId' = [nextId EXCEPT !.log = @ + 1]
                /\ last' = Answer(s, Request(s).perm, 201, file)
           ELSE /\ last' = Answer(s, Request(s).perm, 500, <<>>)
                /\ UNCHANGED <<logs, nextId>>
    /\ Done(s)
    /\ UNCHANGED <<buckets, files, perms, content>>

\* POST /api/buckets/:id/permissions after its check: createBucketPermission
\* and the response.
CreatePermissionStep(s) ==
    /\ Request(s).pc = "checked" /\ Request(s).op = OpPostPermission
    /\ LET row == [id |-> nextId.perm, bucketId |-> Request(s).bucketId,
                   userId |-> Request(s).arg.userId,
                   permission |-> Request(s).arg.permission]
       IN  IF ~PermissionRowOk(row.bucketId, row.userId)
           THEN /\ last' = Answer(s, Request(s).perm, 500, <<>>)
                /\ UNCHANGED <<perms, nextId>>
           ELSE /\ perms' = perms \cup {row}
                /\ nextId' = [nextId EXCEPT !.perm = @ + 1]
                /\ last' = [Answer(s, Request(s).perm, 201, <<row>>)
                               EXCEPT !.permId = row.id]
    /\ Done(s)
    /\ UNCHANGED <<buckets, files, logs, content>>

NextC ==
    \/ \E u \in Users, n \in Names : RoomC(1) /\ PostBucketRoute(u, n, FALSE, Absent)
    \/ \E s \in Slots, req \in Requests : OwnerQueryStep(s, req)
    \/ \E s \in Slots : RowsQueryStep(s)
    \/ \E s \in Slots : UpdateBucketStep(s)
    \/ \E s \in Slots : DeleteBucketStep(s)
    \/ \E s \in Slots : CreateFileStep(s)
    \/ \E s \in Slots : LogUploadStep(s)
    \/ \E s \in Slots : RoomC(1) /\ CreatePermissionStep(s)

SpecC == Init /\ [][NextC]_vars

\* ------------------------------------------------------- concurrent grants
\* POST /api/buckets/:id/permissions step by step on the buckets created so
\* far: every caller, every grantee, every documented level.
GrantRequests ==
    [op : {OpPostPermission}, user : Users, bucketId : IssuedBucketIds,
     arg : [userId : Users, permission : Levels]]

RoomG(n) == nextId.perm - 1 + n <= MaxPermsG

NextG ==
    \/ \E u \in Users, n \in Names :
          nextId.bucket <= MaxBucketsG /\ PostBucketRoute(u, n, FALSE, Absent)
    \/ \E s \in Slots, req \in GrantRequests : RoomG(1) /\ OwnerQueryStep(s, req)
    \/ \E s \in Slots : RowsQueryStep(s)
    \/ \E s \in Slots : CreatePermissionStep(s)

SpecG == Init /\ [][NextG]_vars

\* ------------------------------------------------------ failing log writes
\* The three routes that await logAccess inside their try block, taken at
\* the moment the INSERT into access_logs is rejected by the database (lost
\* connection, full disk): the catch block answers 500.  What the handler
\* wrote before stays written; no statement spans a transaction.

\* The handler leaving the created file row to a transaction that is rolled
\* back with the failed log write.
UploadRouteLogFails_RolledBack(userId, bucketId, bytes, originalName) ==
    /\ \E permission \in CheckUserPermission(userId, bucketId) :
        /\ ~WriteDenied(permission)
        /\ FileRowOk(bucketId, userId)
        /\ last' = [Response(OpUpload, userId, bucketId, 0, 0, permission, 500, <<>>)
                       EXCEPT !.hasFile = TRUE, !.metaOk = TRUE, !.logFails = TRUE]
    /\ UNCHANGED <<buckets, files, perms, logs, nextId, content, inflight>>

\* POST /api/files/upload whose logAccess is rejected after createFile.
UploadRouteLogFails(userId, bucketId, bytes, originalName) ==
    /\ \E permission \in CheckUserPermission(userId, bucketId) :
        LET file == [id |-> nextId.file,
                     name |-> UniqueName(RandomUUID, originalName),
                     originalName |-> originalName,
                     bucketId |-> bucketId,
                     uploaderId |-> userId,
                     checksum |-> Sha256(bytes)]
        IN  /\ ~WriteDenied(permission)
            /\ FileRowOk(bucketId, userId)
            /\ files' = files \cup {file}
            /\ content' = Append(content, bytes)
            /\ nextId' = [nextId EXCEPT !.file = @ + 1]
            /\ last' = [Response(OpUpload, userId, bucketId, 0, 0, permission, 500, <<>>)
                           EXCEPT !.hasFile = TRUE, !.metaOk = TRUE, !.logFails = TRUE]
    /\ UNCHANGED <<buckets, perms, logs, inflight>>

\* GET /api/buckets/:id whose logAccess is rejected.
GetBucketRouteLogFails(userId, bucketId) ==
    /\ \E permission \in CheckUserPermission(userId, bucketId) :
        /\ permission # None
        /\ GetBucketById(bucketId) # <<>>
        /\ last' = [Response(OpGetBucket, userId, bucketId, 0, 0, permission, 500, <<>>)
                       EXCEPT !.logFails = TRUE]
    /\ UNCHANGED <<buckets, files, perms, logs, nextId, content, inflight>>

\* GET /api/files/:id whose logAccess is rejected.
GetFileRouteLogFails(userId, fileId) ==
    /\ GetFileById(fileId) # <<>>
    /\ LET file == GetFileById(fileId)[1]
       IN  \E permission \in CheckUserPermission(userId, file.bucketId) :
            /\ permission # None
            /\ last' = [Response(OpGetFile, userId, file.bucketId, fileId, 0,
                                  permission, 500, <<>>)
                           EXCEPT !.logFails = TRUE]
    /\ UNCHANGED <<buckets, files, perms, logs, nextId, content, inflight>>

\* Buckets, permissions and files inserted so far and the views logged.
RoomF(n) ==
    (nextId.bucket - 1) + (nextId.perm - 1) + (nextId.file - 1)
    + Cardinality({l \in logs : l.action # "upload"}) + n <= MaxRowsF

NextF ==
    \/ \E u \in Users, n \in Names : RoomF(1) /\ PostBucketRoute(u, n, FALSE, Absent)
    \/ \E u \in Users, b \in BucketIds, g \in Users, l \in Levels :
          RoomF(1) /\ PostPermissionRoute(u, b, g, l)
    \/ \E u \in Users, b \in BucketIds, up \in Uploads :
          RoomF(1) /\ UploadRoute(u, b, up.hasFile, up.metaOk, up.bytes, up.originalName)
    \/ \E u \in Users, b \in BucketIds : RoomF(1) /\ GetBucketRoute(u, b)
    \/ \E u \in Users, f \in FileIds : RoomF(1) /\ GetFileRoute(u, f)
    \/ \E u \in Users, f \in FileIds : RoomF(1) /\ DeleteFileRoute(u, f)
    \/ \E u \in Users, b \in BucketIds : DeleteBucketRoute(u, b)
    \/ \E u \in Users, b \in BucketIds, bytes \in Bytes, n \in OriginalNames :
          RoomF(1) /\ UploadRouteLogFails(u, b, bytes, n)
    \/ \E u \in Users, b \in BucketIds : GetBucketRouteLogFails(u, b)
    \/ \E u \in Users, f \in FileIds : GetFileRouteLogFails(u, f)

SpecF == Init /\ [][NextF]_vars

\* ------------------------------------------------ the queries on any table
\* getFiles with a search string and getBucketById, applied to stored tables
\* of every shape within the bounds.

\* Column values: strings are sequences of characters.
StringsQ == {<<"a", "b">>, <<"A", "x", "b">>}
SearchChars == {"a", "B", "_"}

RECURSIVE StringsUpTo(_)
StringsUpTo(n) ==
    IF n = 0 THEN {<<>>}
    ELSE LET shorter == StringsUpTo(n - 1)
         IN  shorter \cup {Append(q, c) : q \in shorter, c \in SearchChars}

\* Letter case as ILIKE folds it.
Lower(c) == IF c = "A" THEN "a" ELSE IF c = "B" THEN "b" ELSE c

\* str LIKE pattern, case folded: '%' stands for any run of characters and
\* '_' for any one character.
RECURSIVE LikeMatch(_, _)
LikeMatch(str, pattern) ==
    IF pattern = <<>> THEN str = <<>>
    ELSE IF Head(pattern) = "%"
    THEN \E k \in 0..Len(str) : LikeMatch(SubSeq(str, k + 1, Len(str)), Tail(pattern))
    ELSE IF str = <<>> THEN FALSE
    ELSE /\ Head(pattern) = "_" \/ Lower(Head(pattern)) = Lower(Head(str))
         /\ LikeMatch(Tail(str), Tail(pattern))

\* ilike(column, `%${search}%`)
ILike(column, search) == LikeMatch(column, <<"%">> \o search \o <<"%">>)

\* The same on a nullable column, <<>> (NULL) or <<string>>: NULL matches
\* nothing.
ILikeNullable(column, search) == column # <<>> /\ ILike(column[1], search)

\* getFiles(bucketId, search): bucketId 0 and the empty search are falsy and
\* add no condition; newest first.
GetFilesSearch(bucketId, search) ==
    Reverse(SortById({f \in files :
        /\ bucketId = 0 \/ f.bucketId = bucketId
        /\ search = <<>> \/ ILike(f.name, search) \/ ILike(f.originalName, search)
                         \/ ILikeNullable(f.description, search)}))

\* The rows a table may hold under id i.
FileShapes(i) ==
    [id : {i}, bucketId : {1, 2}, name : {<<"c">>, <<"b", "c">>},
     originalName : StringsQ,
     description : {<<>>} \cup {<<d>> : d \in StringsQ}]
PermShapes(i) ==
    [id : {i}, bucketId : {1}, userId : {"u2"}, permission : {"read", "write"}]

\* Two buckets of u1 and every file and permission table within the bounds.
InitQ ==
    /\ buckets = {[id |-> 1, name |-> "alpha", ownerId |-> "u1", isPublic |-> FALSE],
                  [id |-> 2, name |-> "beta", ownerId |-> "u1", isPublic |-> FALSE]}
    /\ \E n \in 0..MaxFilesQ, m \in 0..MaxPermsQ :
        /\ \E t \in [1..n -> UNION {FileShapes(i) : i \in 1..n}] :
              /\ \A i \in 1..n : t[i].id = i
              /\ files = Range(t)
        /\ \E t \in [1..m -> UNION {PermShapes(i) : i \in 1..m}] :
              /\ \A i \in 1..m : t[i].id = i
              /\ perms = Range(t)
        /\ nextId = [bucket |-> 3, file |-> n + 1, perm |-> m + 1, log |-> 1]
        /\ content = [i \in 1..n |-> 0]
    /\ logs = {}
    /\ last = [op |-> "none", bucketId |-> 0, search |-> <<>>, body |-> <<>>]
    /\ inflight = [s \in Slots |-> Idle]

\* A call of getFiles on the tables drawn, and its result.
GetFilesCall(bucketId, search) ==
    /\ last.op = "none"
    /\ last' = [op |-> "getFiles", bucketId |-> bucketId, search |-> search,
                body |-> GetFilesSearch(bucketId, search)]
    /\ UNCHANGED <<buckets, files, perms, logs, nextId, content, inflight>>

\* A call of getBucketById on the tables drawn, and its result.
GetBucketByIdCall(id) ==
    /\ last.op = "none"
    /\ last' = [op |-> "getBucketById", bucketId |-> id, search |-> <<>>,
                body |-> GetBucketById(id)]
    /\ UNCHANGED <<buckets, files, perms, logs, nextId, content, inflight>>

NextQ ==
    \/ \E b \in 0..2, q \in StringsUpTo(MaxSearchLen) : GetFilesCall(b, q)
    \/ \E b \in 1..3 : GetBucketByIdCall(b)

SpecQ == InitQ /\ [][NextQ]_vars

\* The buckets, file rows and permission rows a response of a GET route carries.
BodyBuckets == IF last.op \in {OpGetBuckets, OpGetBucket} THEN Range(last.body) ELSE {}
BodyFiles ==
    (IF last.op \in {OpGetFiles, OpGetFile} THEN Range(last.body) ELSE {})
    \cup UNION {Range(b.files) : b \in BodyBuckets}
BodyPermissions ==
    (IF last.op = OpGetPermissions THEN Range(last.body) ELSE {})
    \cup UNION {Range(b.permissions) : b \in BodyBuckets}

HasRow(userId, bucketId) == \E p \in perms : p.userId = userId /\ p.bucketId = bucketId
IsOwner(userId, bucketId) == \E b \in buckets : b.id = bucketId /\ b.ownerId = userId

\* ------------------------------------------------------------------ claims

\* C1: the owner of a bucket is always resolved to 'admin', whatever permission
\* rows exist for the owner on that bucket.
C1_OwnerIsAdmin ==
    \A b \in buckets : CheckUserPermission(b.ownerId, b.id) = {"admin"}

\* C1 witness: an owner who also holds a 'read' row on the own bucket was let
\* through an admin-only route.
C1_Witness ==
    /\ last.op = OpGetPermissions /\ last.status = 200
    /\ IsOwner(last.user, last.bucketId)
    /\ \E p \in perms : /\ p.userId = last.user /\ p.bucketId = last.bucketId
                        /\ p.permission = "read"

\* C2 (as claimed): a user who neither owns bucket B nor holds a permission
\* row for it gets no response of a GET route that contains B, a file of B or
\* a permission row of B.  Stated for the buckets that are not public, which
\* no reading of the listing contract shows to such a user.
C2_NoDisclosureWithoutPermission ==
    \A b \in buckets :
        (/\ last.user \in Users
         /\ ~IsOwner(last.user, b.id) /\ ~HasRow(last.user, b.id)
         /\ b.isPublic # TRUE)
        => /\ \A x \in BodyBuckets : x.id # b.id
           /\ \A f \in BodyFiles : f.bucketId # b.id
           /\ \A p \in BodyPermissions : p.bucketId # b.id

\* The new row of a table after a step, if the step added exactly one row.
AddedOne(old, new) == old \subseteq new /\ Cardinality(new \ old) = 1

\* What an upload step must have done when it succeeds: status 201, exactly
\* one more file row (of the bucket, by the caller) and exactly one more log
\* row, an 'upload' row naming that file, the bucket and the caller.
UploadSucceeded ==
    /\ last'.status = 201
    /\ AddedOne(files, files') /\ AddedOne(logs, logs')
    /\ \A f \in files' \ files : \A l \in logs' \ logs :
        /\ f.bucketId = last'.bucketId /\ f.uploaderId = last'.user
        /\ l.action = "upload" /\ l.fileId = f.id
        /\ l.bucketId = last'.bucketId /\ l.userId = last'.user

UploadRejected == last'.status = 403 /\ files' = files /\ logs' = logs

C4_NoDeduplication ==
    [][(last'.op = OpUpload /\ last'.status = 201) =>
        LET new == last'.body[1]
        IN  /\ files' = files \cup {new}
            /\ \A f \in files :
                /\ f.id # new.id
                /\ content[f.id] = content'[new.id] =>
                      (f.checksum = new.checksum /\ f.name # new.name)]_vars

\* C4 witness: two rows of one bucket with the same original name, uploaded
\* with the same bytes.
C4_Witness ==
    /\ last.op = OpUpload /\ last.status = 201
    /\ \E f \in files :
        /\ f.id # last.body[1].id
        /\ f.bucketId = last.body[1].bucketId
        /\ f.originalName = last.body[1].originalName
        /\ content[f.id] = content[last.body[1].id]

\* C5 (as claimed): DELETE /api/permissions/:id on an existing row, by an
\* admin of the row's bucket, succeeds and removes the row, so that a grantee
\* who is not the owner and holds no other row is back to no permission.
C5_GrantThenRevoke ==
    [][last'.op = OpDeletePermission =>
        \A p \in perms :
            (p.id = last'.permId /\ "admin" \in CheckUserPermission(last'.user, p.bucketId))
            => /\ last'.status = 200
               /\ p \notin perms'
               /\ (~IsOwner(p.userId, p.bucketId)
                   /\ ~\E q \in perms \ {p} : q.userId = p.userId /\ q.bucketId = p.bucketId)
                  => ~\E q \in perms' : q.userId = p.userId /\ q.bucketId = p.bucketId]_vars

\* C6 (as claimed): after DELETE /api/buckets/:id by a caller the handler
\* resolved to 'admin', the bucket is in no user's listing, whatever files,
\* permission rows or log rows refer to it.
C6_DeletedBucketNotListed ==
    (last.op = OpDeleteBucket /\ last.perm = "admin")
    => \A u \in Users : \A i \in 1..Len(GetBuckets(u)) :
           GetBuckets(u)[i].id # last.bucketId

\* C7 (as claimed): after DELETE /api/files/:id by a caller the handler
\* resolved to 'write' or 'admin', the file is neither found by id nor part of
\* a file query of its bucket.
C7_DeletedFileNotFound ==
    (last.op = OpDeleteFile /\ last.perm \in {"write", "admin"})
    => /\ GetFileById(last.fileId) = <<>>
       /\ \A b \in {0, last.bucketId} : \A i \in 1..Len(GetFiles(b)) :
              GetFiles(b)[i].id # last.fileId

\* The action kind the audit trail is to record for a route.
ActionOf(op) ==
    IF op \in {OpGetBucket, OpGetFile} THEN "view"
    ELSE IF op = OpUpload THEN "upload" ELSE "delete"

\* C8 (as claimed): every successful view, upload or delete of a bucket or a
\* file adds exactly one log row, which records the caller, the target and the
\* action kind of the route.
C8_EverySuccessLogged ==
    [][(/\ last'.op \in {OpGetBucket, OpGetFile, OpUpload, OpDeleteFile, OpDeleteBucket}
        /\ last'.status \in {200, 201})
       => /\ AddedOne(logs, logs')
          /\ \A l \in logs' \ logs :
              /\ l.userId = last'.user
              /\ l.action = ActionOf(last'.op)
              /\ l.bucketId = last'.bucketId
              /\ last'.op \in {OpGetFile, OpDeleteFile} => l.fileId = last'.fileId
              /\ last'.op = OpUpload => l.fileId = last'.body[1].id]_vars

\* The buckets getBuckets(userId) is to return: owned, permitted or public.
Visible(userId) ==
    {b \in buckets : b.ownerId = userId \/ HasRow(userId, b.id) \/ b.isPublic = TRUE}

\* C9: the response of GET /api/buckets holds each bucket the caller owns,
\* holds a permission row for, or that is public, exactly once, with its own
\* fields, and no other bucket.
C9_ListingIsVisibleSet ==
    last.op = OpGetBuckets =>
        /\ {b.id : b \in BodyBuckets} = {b.id : b \in Visible(last.user)}
        /\ Len(last.body) = Cardinality(Visible(last.user))
        /\ \A x \in BodyBuckets : \E b \in buckets :
              /\ b.id = x.id /\ b.name = x.name
              /\ b.ownerId = x.ownerId /\ b.isPublic = x.isPublic

\* C9 witness: a listing that holds a bucket seen through a permission row
\* only, while another bucket stays hidden from the caller.
C9_Witness ==
    /\ last.op = OpGetBuckets
    /\ \E x \in BodyBuckets : ~IsOwner(last.user, x.id) /\ x.isPublic # TRUE
    /\ \E b \in buckets : b \notin Visible(last.user)

\* C10 (as claimed): every bucket of a GET /api/buckets response carries all
\* file rows and all permission rows of the bucket, each exactly once.
C10_NestedRowsComplete ==
    last.op = OpGetBuckets =>
        \A x \in BodyBuckets :
            /\ Range(x.files) = {f \in files : f.bucketId = x.id}
            /\ Len(x.files) = Cardinality(Range(x.files))
            /\ Range(x.permissions) = {p \in perms : p.bucketId = x.id}
            /\ Len(x.permissions) = Cardinality(Range(x.permissions))

\* C11: PUT and DELETE /api/buckets/:id by a caller whose permission on the
\* bucket is not 'admin' are answered 403 and leave the bucket table as it
\* was; GET /api/buckets/:id by a caller whose permission is 'read', 'write'
\* or 'admin' is answered 200 with the row of that bucket.
C11_BucketRouteGates ==
    [][LET held == CheckUserPermission(last'.user, last'.bucketId)
       IN  /\ (last'.op \in {OpPutBucket, OpDeleteBucket} /\ "admin" \notin held)
                => (last'.status = 403 /\ buckets' = buckets)
           /\ (last'.op = OpGetBucket /\ held \subseteq Levels)
                => /\ last'.status = 200
                   /\ Len(last'.body) = 1
                   /\ \E b \in buckets :
                         /\ b.id = last'.bucketId /\ b.id = last'.body[1].id
                         /\ b.name = last'.body[1].name
                         /\ b.ownerId = last'.body[1].ownerId
                         /\ b.isPublic = last'.body[1].isPublic]_vars

\* C11 witness: the holder of a 'write' row was refused a PUT on the bucket,
\* which is still there.
C11_Witness ==
    /\ last.op = OpPutBucket /\ last.status = 403 /\ last.perm = "write"
    /\ HasRow(last.user, last.bucketId)
    /\ \E b \in buckets : b.id = last.bucketId

\* C12: DELETE /api/files/:id on an existing file by a caller whose permission
\* on the file's bucket is none or 'read' is answered 403, keeps the file row
\* and writes no log row; a step of the route that removes a file row is made
\* by a holder of 'write' or 'admin'.
C12_FileDeleteGate ==
    [][last'.op = OpDeleteFile =>
        \A f \in files : f.id = last'.fileId =>
            LET held == CheckUserPermission(last'.user, f.bucketId)
            IN  /\ held \subseteq {None, "read"}
                    => (last'.status = 403 /\ files' = files /\ logs' = logs)
                /\ files' # files => held \cap {"write", "admin"} # {}]_vars

\* C12 witness: the holder of a 'read' row was refused the deletion of a file
\* of the bucket; the file is still stored and no 'delete' row was logged.
C12_Witness ==
    /\ last.op = OpDeleteFile /\ last.status = 403 /\ last.perm = "read"
    /\ \E f \in files : f.id = last.fileId /\ HasRow(last.user, f.bucketId)
    /\ ~\E l \in logs : l.action = "delete"

\* C13 (as claimed): listing, granting and revoking permissions of bucket B
\* succeed when the caller's permission on B is 'admin' (a grant that carries
\* a level) and only then; for any other caller the permission table stays as
\* it was and the response carries no row.
C13_PermissionAdminOnly ==
    [][/\ last'.op \in {OpGetPermissions, OpPostPermission} =>
            LET held == CheckUserPermission(last'.user, last'.bucketId)
            IN  /\ held = {"admin"} /\ last'.op = OpGetPermissions
                    => /\ last'.status = 200
                       /\ Range(last'.body) = {p \in perms : p.bucketId = last'.bucketId}
                /\ held = {"admin"} /\ last'.op = OpPostPermission
                    => \/ last'.status = 400 /\ perms' = perms
                       \/ last'.status = 201 /\ AddedOne(perms, perms')
                /\ "admin" \notin held
                    => (last'.status = 403 /\ perms' = perms /\ last'.body = <<>>)
       /\ last'.op = OpDeletePermission =>
            \A p \in perms : p.id = last'.permId =>
                LET held == CheckUserPermission(last'.user, p.bucketId)
                IN  /\ held = {"admin"} => (last'.status = 200 /\ perms' = perms \ {p})
                    /\ "admin" \notin held
                        => (last'.status # 200 /\ perms' = perms /\ last'.body = <<>>)]_vars

\* C14: GET /api/logs with a bucketId is answered with log rows only to a
\* caller whose permission on that bucket is 'admin', who gets the rows of
\* that bucket (of the given file, if one is given); any other caller gets
\* 403 and no row.
C14_ScopedLogsAdminOnly ==
    (last.op = OpGetLogs /\ last.bucketId # 0) =>
        LET held == CheckUserPermission(last.user, last.bucketId)
        IN  /\ last.status = 200 => "admin" \in held
            /\ "admin" \notin held => (last.status = 403 /\ last.body = <<>>)
            /\ held = {"admin"} =>
                  /\ last.status = 200
                  /\ Range(last.body) =
                        {l \in logs : /\ l.bucketId = last.bucketId
                                      /\ last.fileId = 0 \/ l.fileId = last.fileId}

\* C14 witness: the holder of a 'write' row asked for the log of the bucket,
\* which has rows, and was refused.
C14_Witness ==
    /\ last.op = OpGetLogs /\ last.status = 403 /\ last.perm = "write"
    /\ HasRow(last.user, last.bucketId)
    /\ \E l \in logs : l.bucketId = last.bucketId

\* C15: a POST /api/buckets that creates a bucket stores one new row whose
\* ownerId is the caller, whatever ownerId the body carried, and right after
\* it the caller's permission on the new bucket is 'admin' with no permission
\* row for the bucket; a POST that creates nothing leaves the table as it was.
C15_CreatorOwnsBucket ==
    [][last'.op = OpPostBucket =>
        IF last'.status = 201
        THEN LET new == last'.body[1]
             IN  /\ buckets' = buckets \cup {new}
                 /\ \A b \in buckets : b.id # new.id
                 /\ new.ownerId = last'.user
                 /\ \E u \in Users, id \in BucketIds :
                       /\ u = last'.user /\ id = new.id
                       /\ CheckUserPermission(u, id)' = {"admin"}
                 /\ perms' = perms
                 /\ \A p \in perms' : p.bucketId # new.id
        ELSE buckets' = buckets]_vars

\* C15 witness: a bucket was created by a request whose body named another
\* user as ownerId; the stored row is owned by the caller.
C15_Witness ==
    /\ last.op = OpPostBucket /\ last.status = 201
    /\ last.ownerId \in Users \ {last.user}
    /\ \E b \in buckets : b.id = last.bucketId /\ b.ownerId = last.user

\* C16: the access log is append-only: every step keeps each log row with
\* its content, so the number of rows never decreases, and a new row gets an
\* id no earlier row has.
C16_LogAppendOnly ==
    [][/\ logs \subseteq logs'
       /\ Cardinality(logs') >= Cardinality(logs)
       /\ \A l \in logs' \ logs : \A k \in logs : k.id # l.id]_vars

\* C16 witness: the deletion of a logged file was attempted by a caller with
\* write access; the 'upload' row of the file and a later row are in the log.
C16_Witness ==
    /\ last.op = OpDeleteFile /\ last.perm \in {"write", "admin"}
    /\ \E l \in logs : l.action = "upload" /\ l.fileId = last.fileId
    /\ Cardinality(logs) >= 2

\* C17 (as claimed): every permission row carries one of the levels 'read',
\* 'write', 'admin', so checkUserPermission returns one of these or none for
\* every user and bucket.
C17_LevelsAreValid ==
    /\ \A p \in perms : p.permission \in Levels
    /\ \A u \in Users, b \in BucketIds :
          CheckUserPermission(u, b) \subseteq Levels \cup {None}

\* C20 (as claimed): GET /api/buckets/:id for an id of no bucket, and GET or
\* DELETE /api/files/:id for an id of no file, are answered 404; on an
\* existing bucket or file a caller without sufficient permission gets 403.
C20_AbsentIs404 ==
    [][/\ last'.op = OpGetBucket =>
            IF \A b \in buckets : b.id # last'.bucketId
            THEN last'.status = 404
            ELSE CheckUserPermission(last'.user, last'.bucketId) = {None}
                    => last'.status = 403
       /\ last'.op \in {OpGetFile, OpDeleteFile} =>
            IF \A f \in files : f.id # last'.fileId
            THEN last'.status = 404
            ELSE \A f \in files : f.id = last'.fileId =>
                    LET held == CheckUserPermission(last'.user, f.bucketId)
                    IN  (\/ held = {None}
                         \/ last'.op = OpDeleteFile /\ held \subseteq {None, "read"})
                        => last'.status = 403]_vars

NamesUnique == \A a, b \in buckets : a.name = b.name => a = b

\* C18: no two buckets ever have the same name, however the creates and the
\* renames of concurrent requests interleave; a create that does not answer
\* 201 with a name no bucket had, and a rename to a name another bucket has,
\* answer 500 and leave the bucket table as it was.
C18_UniqueNames ==
    [][/\ NamesUnique'
       /\ (last'.op = OpPostBucket /\ inflight' = inflight) =>
             \/ /\ last'.status = 201
                /\ \A b \in buckets : b.name # last'.body[1].name
                /\ buckets' = buckets \cup {last'.body[1]}
             \/ /\ last'.status = 500
                /\ buckets' = buckets
                /\ Cardinality(buckets) >= 1
       /\ \A s \in Slots :
             (/\ Request(s).pc = "checked" /\ Request(s).op = OpPutBucket
              /\ inflight'[s] = Idle
              /\ \E a, b \in buckets : /\ a.id = Request(s).bucketId /\ b.id # a.id
                                        /\ b.name = Request(s).arg.value)
             => (last'.status = 500 /\ buckets' = buckets)]_vars

\* C18 witness: a rename was refused for its name while another rename,
\* already past its permission check, is still to be written.
C18_Witness ==
    /\ last.op = OpPutBucket /\ last.status = 500
    /\ \E s \in Slots : Request(s).pc = "checked" /\ Request(s).op = OpPutBucket
    /\ Cardinality({b.name : b \in buckets}) = 2

\* C19: every file row's bucketId is the id of a stored bucket, also when an
\* upload's createFile comes after the deleteBucket of a request that was
\* handled in between, and after a bucket holding files was asked to be
\* deleted.
C19_FilesHaveBuckets ==
    \A f \in files : \E b \in buckets : b.id = f.bucketId

\* C19 witness: an upload passed its permission check as 'admin', the bucket
\* was deleted before createFile ran, and the upload was answered 500.
C19_Witness ==
    /\ last.op = OpUpload /\ last.status = 500 /\ last.perm = "admin"
    /\ \A b \in buckets : b.id # last.bucketId
    /\ \A f \in files : f.bucketId # last.bucketId

\* The string holds the search string as a substring, letter case ignored.
Contains(str, search) ==
    \E i \in 1..(Len(str) + 1) :
        /\ i + Len(search) - 1 <= Len(str)
        /\ \A k \in 1..Len(search) : Lower(str[i + k - 1]) = Lower(search[k])

\* C21 (as claimed): getFiles(bucketId, search) returns exactly the files of
\* the bucket whose name, original name or description contains the search
\* string, letter case ignored.
C21_SearchIsContainment ==
    last.op = "getFiles" =>
        /\ Range(last.body) =
              {f \in files :
                  /\ last.bucketId = 0 \/ f.bucketId = last.bucketId
                  /\ \/ Contains(f.name, last.search)
                     \/ Contains(f.originalName, last.search)
                     \/ f.description # <<>> /\ Contains(f.description[1], last.search)}
        /\ Len(last.body) = Cardinality(Range(last.body))

\* C28 (as claimed): getBucketById returns every file row of the bucket
\* exactly once in 'files' and every permission row of the bucket exactly
\* once in 'permissions'.
C28_DetailRowsOnce ==
    (last.op = "getBucketById" /\ last.body # <<>>) =>
        LET bucket == last.body[1]
        IN  /\ Range(bucket.files) = {f \in files : f.bucketId = bucket.id}
            /\ Len(bucket.files) = Cardinality(Range(bucket.files))
            /\ Range(bucket.permissions) = {p \in perms : p.bucketId = bucket.id}
            /\ Len(bucket.permissions) = Cardinality(Range(bucket.permissions))

\* C22: a log write that fails surfaces as a failed operation.  An upload whose
\* log write fails after createFile answers 500 while the file row stays, with
\* no 'upload' row in the log; GET /api/buckets/:id and GET /api/files/:id
\* whose log write fails answer 500 with no body and change no table.
C22_LogFailureSurfaces ==
    [][last'.logFails =>
        /\ last'.status = 500 /\ last'.body = <<>>
        /\ logs' = logs /\ buckets' = buckets /\ perms' = perms
        /\ last'.op \in {OpUpload, OpGetBucket, OpGetFile}
        /\ last'.op = OpUpload =>
              \E f \in files' \ files :
                  /\ files' = files \cup {f}
                  /\ f.id = nextId.file /\ f.bucketId = last'.bucketId
                  /\ f.uploaderId = last'.user
                  /\ ~\E l \in logs' : l.fileId = f.id
        /\ last'.op # OpUpload => files' = files]_vars

\* C22 witness: an upload was answered 500 for its log write and the bucket
\* holds the file row, which no 'upload' log row accompanies.
C22_Witness ==
    /\ last.op = OpUpload /\ last.logFails /\ last.status = 500
    /\ \E f \in files :
          /\ f.bucketId = last.bucketId /\ f.uploaderId = last.user
          /\ ~\E l \in logs : l.action = "upload" /\ l.fileId = f.id

\* C23: the pair (bucketId, userId) is not unique among the permission rows.
\* A grant that passed its admin check answers 201 and adds one row whatever
\* rows the pair has already, whether the grants run one after the other or
\* interleaved; the permission a non-owner is found to have is the level of
\* one of the rows of the pair (none when there is no row).
C23_GrantsNotUnique ==
    [][\A s \in Slots :
        /\ (Request(s).pc = "checked" /\ inflight'[s] = Idle) =>
              LET req == Request(s)
                  row == [id |-> nextId.perm, bucketId |-> req.bucketId,
                          userId |-> req.arg.userId,
                          permission |-> req.arg.permission]
              IN  /\ last'.status = 201 /\ last'.body = <<row>>
                  /\ perms' = perms \cup {row}
                  /\ Cardinality(perms') = Cardinality(perms) + 1
        /\ (Request(s).pc = "rows" /\ inflight'[s] # inflight[s]) =>
              LET req == Request(s)
                  rows == {p \in perms : p.bucketId = req.bucketId
                                          /\ p.userId = req.user}
                  found == IF inflight'[s] = Idle THEN last'.perm
                           ELSE inflight'[s].perm
              IN  IF rows = {} THEN found = None
                  ELSE \E p \in rows : found = p.permission]_vars

\* C23 witness: a non-owner holds two rows of different levels on the bucket,
\* the more recent of them below 'admin', and the grant this user then issued
\* was answered 201 on the strength of the older row.
C23_Witness ==
    /\ last.op = OpPostPermission /\ last.status = 201 /\ last.perm = "admin"
    /\ ~IsOwner(last.user, last.bucketId)
    /\ \E p \in perms, q \in perms :
          /\ p.bucketId = last.bucketId /\ q.bucketId = last.bucketId
          /\ p.userId = last.user /\ q.userId = last.user
          /\ p.id < q.id /\ q.id < last.permId
          /\ p.permission = "admin" /\ q.permission = "read"
          /\ ~\E r \in perms : r.id > q.id /\ r.id < last.permId

\* C24: no self-escalation.  A request of user U leaves, on every bucket B
\* where U's effective permission cannot be 'admin', the effective permission
\* of every user as it was and B in place with its owner; U is therefore
\* still without 'admin' on B after the request, and so after any number of
\* requests of U alone.
C24_NoSelfEscalation ==
    [][\E u \in Users :
        /\ u = last'.user
        /\ \A b \in buckets :
              "admin" \notin CheckUserPermission(u, b.id) =>
                  /\ \E c \in buckets' : c.id = b.id /\ c.ownerId = b.ownerId
                  /\ \A v \in Users :
                        CheckUserPermission(v, b.id)' = CheckUserPermission(v, b.id)]_vars

\* C24 witness: a holder of 'write' who is not admin of the bucket asked for a
\* permission row on it and was refused.
C24_Witness ==
    /\ last.op = OpPostPermission /\ last.status = 403 /\ last.perm = "write"
    /\ "admin" \notin CheckUserPermission(last.user, last.bucketId)
    /\ \E b \in buckets : b.id = last.bucketId /\ b.ownerId # last.user

\* C25 (as claimed): the ownerId of a bucket is fixed at creation; no request
\* of any user changes the owner of a bucket that stays in the table.
C25_OwnerFixed ==
    [][\A b \in buckets, c \in buckets' : c.id = b.id => c.ownerId = b.ownerId]_vars

\* C26: a request answered 400, 403 or 404 leaves every table as it was (the
\* users table is written by no route); a denied view, upload or delete adds
\* no log row, and an upload without a file part is answered 400 with no
\* permission looked up, whoever sends it.
C26_RefusalsWriteNothing ==
    [][/\ last'.status \in {400, 403, 404} =>
            /\ buckets' = buckets /\ files' = files /\ perms' = perms
            /\ logs' = logs /\ nextId' = nextId /\ content' = content
       /\ (last'.op = OpUpload /\ ~last'.hasFile) =>
            last'.status = 400 /\ last'.perm = "unchecked"]_vars

\* C26 witness: a user without any permission on an existing bucket sent an
\* upload without a file part and was answered 400, not 403.
C26_Witness ==
    /\ last.op = OpUpload /\ ~last.hasFile /\ last.status = 400
    /\ \E b \in buckets : b.id = last.bucketId
    /\ CheckUserPermission(last.user, last.bucketId) = {None}
    /\ logs # {}

\* C27 (as claimed): every log row GET /api/logs returns to a user concerns
\* only buckets on which that user's effective permission is 'admin' (the row
\* names the bucket, or names a file of the bucket), whether the request
\* carries bucketId, fileId only, or neither.
C27_LogsReachAdminsOnly ==
    (last.op = OpGetLogs /\ last.status = 200) =>
        \A l \in Range(last.body) : \A b \in BucketIds :
            (l.bucketId = b \/ \E f \in files : f.id = l.fileId /\ f.bucketId = b)
                => "admin" \in CheckUserPermission(last.user, b)

\* Every reference of a file, permission or log row has its target row.
NoDanglingReference ==
    /\ \A f \in files : \E b \in buckets : b.id = f.bucketId
    /\ \A p \in perms : \E b \in buckets : b.id = p.bucketId
    /\ \A l \in logs :
          /\ l.bucketId = 0 \/ \E b \in buckets : b.id = l.bucketId
          /\ l.fileId = 0 \/ \E f \in files : f.id = l.fileId

\* C29: referential integrity blocks deletes.  DELETE /api/buckets/:id by an
\* admin of a bucket that a file, permission or log row still references is
\* answered 500 and changes no table; only an unreferenced bucket is removed,
\* and after every request each reference of a file, permission or log row
\* has its target.
C29_ReferencedBucketStays ==
    [][/\ (last'.op = OpDeleteBucket /\ last'.perm = "admin") =>
            IF BucketReferenced(last'.bucketId)
            THEN /\ last'.status = 500
                 /\ buckets' = buckets /\ files' = files /\ perms' = perms
                 /\ logs' = logs
            ELSE /\ last'.status = 200
                 /\ buckets' = {b \in buckets : b.id # last'.bucketId}
       /\ NoDanglingReference']_vars

\* C29 witness: the owner asked to delete a bucket that holds no file and no
\* permission row but was viewed once; the log row kept it and the answer
\* was 500.
C29_Witness ==
    /\ last.op = OpDeleteBucket /\ last.perm = "admin" /\ last.status = 500
    /\ \E b \in buckets : b.id = last.bucketId
    /\ ~BucketReferenced_NoLogs(last.bucketId)
    /\ \E l \in logs : l.bucketId = last.bucketId

\* The user has no effective permission on any bucket.
NoPermissionAnywhere(userId) ==
    \A b \in BucketIds : CheckUserPermission(userId, b) = {None}

\* C30 (as claimed): to a user without permission on any bucket, GET and
\* DELETE /api/files/:id answer an id of a stored file as they answer an id of
\* no file (nextId.file is such an id): each status is possible for the one
\* exactly if it is possible for the other.
C30_ExistenceHidden ==
    \A u \in Users, id \in FileIds, st \in {200, 403, 404, 500} :
        NoPermissionAnywhere(u) =>
            /\ (ENABLED (DeleteFileRoute(u, id) /\ last'.status = st))
                  <=> (ENABLED (DeleteFileRoute(u, nextId.file) /\ last'.status = st))
            /\ (ENABLED (GetFileRoute(u, id) /\ last'.status = st))
                  <=> (ENABLED (GetFileRoute(u, nextId.file) /\ last'.status = st))

\* C30 (amended): the existence of a file is observable without permission.
\* To a user without permission on any bucket, GET and DELETE /api/files/:id
\* answer 404 when no file has the id and 403 when one has; neither answer
\* carries a row and neither request changes a table.
C30_ExistenceObservable ==
    [][\E u \in Users :
        /\ u = last'.user
        /\ (last'.op \in {OpGetFile, OpDeleteFile} /\ NoPermissionAnywhere(u)) =>
              /\ last'.status = IF \E f \in files : f.id = last'.fileId
                                 THEN 403 ELSE 404
              /\ last'.body = <<>>
              /\ buckets' = buckets /\ files' = files /\ perms' = perms
              /\ logs' = logs]_vars

\* C30 witness: a user without permission on any bucket asked to delete a
\* stored file and was answered 403, which an absent id would not be.
C30_Witness ==
    /\ last.op = OpDeleteFile /\ last.status = 403
    /\ NoPermissionAnywhere(last.user)
    /\ \E f \in files : f.id = last.fileId

====
